---- MODULE Spec2Model ----
(***************************************************************************)
(* Model of the IndexedDB file store of src/main_file.js: the promise      *)
(* wrappers over the browser's storage engine (openDB, addFileEntry,       *)
(* listAllFiles, getFileById, deleteFileById, clearAll), the list renderer *)
(* and the click handlers of the page.                                     *)
(*                                                                         *)
(* JavaScript runs one task at a time.  An async handler runs from one     *)
(* await to the next without interruption, so every action below is one    *)
(* such run: a click up to the first pending storage request, or a storage *)
(* event (open success/error, request success/error) together with the     *)
(* continuation of the handler that awaited it.  The storage engine is the *)
(* environment: it completes opens in order, runs transactions on the one  *)
(* object store in creation order (read-write ones exclusively), and may   *)
(* fail an open, fail a request, or abort a read-write transaction after   *)
(* its request has already succeeded (commit failure).                     *)
(***************************************************************************)
EXTENDS Integers, Sequences, FiniteSets, TLC

\* ---------------------------------------------------------------- bounds
\* number of user events in one session (clicks and calls made from the
\* console), after the initial render of the page load
MaxEvents == 2
\* longest selection of the file input
MaxSel == 2
\* largest value of the millisecond clock read by Date.now()
MaxNow == 1
\* number of records in an array handed to the sort of renderList
MaxRecs == 3
\* the byte counts handed to humanSize reach this far on either side of a
\* unit threshold
MaxOffset == 60

\* ------------------------------------------------------------ data values
\* the files a user can select (File objects: name, type, size)
FileA == [name |-> "a.txt", type |-> "text/plain", size |-> 10]
FileB == [name |-> "b.bin", type |-> "", size |-> 2048]
Files == {FileA, FileB}
NoFile == [name |-> "", type |-> "", size |-> 0]

\* a selection of n files that starts with f and alternates between the files
Alternating(f, n) == [k \in 1..n |-> IF k % 2 = 1 THEN f ELSE CHOOSE g \in Files : g # f]

\* the selections fileInput.files holds when Upload is clicked
Selections == {Alternating(f, n) : f \in Files, n \in 0..MaxSel}

\* errors the storage engine reports (DOMException: name, message)
ErrQuota == [name |-> "QuotaExceededError", message |-> "quota exceeded"]
ErrUnknown == [name |-> "UnknownError", message |-> ""]
Errs == {ErrQuota, ErrUnknown}
NoErr == [name |-> "", message |-> ""]

\* a stored entry (keyPath 'id'), and the absent result of store.get
NoRec == [id |-> 0, name |-> "", type |-> "", size |-> 0, added |-> 0, blob |-> NoFile]

\* the record a previous session may have left in the database
PriorRec == [id |-> 1, name |-> FileA.name, type |-> FileA.type, size |-> FileA.size, added |-> 0, blob |-> FileA]

\* ------------------------------------------------------------- variables
VARIABLES
    dbVersion,   \* 0: database does not exist yet, 1: object store created
    store,       \* committed records of object store 'files'
    keyGen,      \* committed current number of the store's key generator
    conns,       \* number of open database connections (never closed)
    calls,       \* gateway calls in issue order, with the awaiting handler
    now,         \* the clock read by Date.now()
    files,       \* fileInput.files
    disabled,    \* uploadBtn.disabled
    fileList,    \* children of #fileList
    alerts,      \* texts shown by alert(), oldest first
    urls,        \* object URLs created by downloads, by creation order
    events,      \* user events so far
    upClean,     \* history: the running/last upload started on an empty, idle store and no delete/clear was issued since
    lastAll,     \* history: the records read by the most recently completed renderList
    retIds,      \* history: the ids addFileEntry resolved with, oldest first
    last,        \* history: the step just taken
    arg,         \* argument of the function under test (0 while the page runs)
    out          \* its result (0 while the page runs)

vars == <<dbVersion, store, keyGen, conns, calls, now, files, disabled, fileList, alerts, urls, events, upClean, lastAll, retIds, last, arg, out>>

\* ---------------------------------------------------------------- helpers
Ids(S) == {r.id : r \in S}

RECURSIVE GetAll(_)
\* store.getAll(): every record, in ascending key order
GetAll(S) ==
    IF S = {} THEN <<>>
    ELSE LET r == CHOOSE x \in S : \A y \in S : x.id <= y.id
         IN <<r>> \o GetAll(S \ {r})

\* store.get(Number(id)): the record with that key, or undefined
Get(S, id) == IF \E r \in S : r.id = id THEN CHOOSE r \in S : r.id = id ELSE NoRec

RECURSIVE InsertNewest(_, _)
\* place r behind every element that is at least as new (stable)
InsertNewest(s, r) ==
    IF s = <<>> THEN <<r>>
    ELSE IF Head(s).added >= r.added THEN <<Head(s)>> \o InsertNewest(Tail(s), r)
    ELSE <<r>> \o s

RECURSIVE SortNewestFirst(_)
\* all.sort((a,b) => b.added - a.added): stable, descending by added
SortNewestFirst(all) ==
    IF all = <<>> THEN <<>>
    ELSE InsertNewest(SortNewestFirst(SubSeq(all, 1, Len(all) - 1)), all[Len(all)])


\* ------------------------------------------------------------- humanSize
K == 1024

\* a size text: the digits before the point, the digits after it (none
\* when the number is printed as an integer) and the suffix
NoText == [whole |-> 0, frac |-> <<>>, unit |-> ""]

\* (n/d).toFixed(1) for integers n >= 0 and a power of two d: n/d is exact
\* in a double, and toFixed picks the integer t with t/10 nearest to it,
\* the larger one when two are equally near
ToFixed1(n, d) ==
    LET q == n \div d
        r == n % d
        t == 10 * q + (10 * r + d \div 2) \div d
    IN [whole |-> t \div 10, frac |-> <<t % 10>>, unit |-> ""]

\* humanSize with <= in the first comparison
humanSize_OffByOne(n) ==
    IF n <= K THEN [whole |-> n, frac |-> <<>>, unit |-> " B"]
    ELSE IF n < K * K THEN [ToFixed1(n, K) EXCEPT !.unit = " KB"]
    ELSE IF n < K * K * K THEN [ToFixed1(n, K * K) EXCEPT !.unit = " MB"]
    ELSE [ToFixed1(n, K * K * K) EXCEPT !.unit = " GB"]

\* lines 84-89
humanSize(n) ==
    IF n < K THEN [whole |-> n, frac |-> <<>>, unit |-> " B"]
    ELSE IF n < K * K THEN [ToFixed1(n, K) EXCEPT !.unit = " KB"]
    ELSE IF n < K * K * K THEN [ToFixed1(n, K * K) EXCEPT !.unit = " MB"]
    ELSE [ToFixed1(n, K * K * K) EXCEPT !.unit = " GB"]
Note == [kind |-> "note", item |-> NoRec]
\* createFileRow(item): the row keeps item for its Download and Delete buttons
createFileRow(item) == [kind |-> "row", item |-> item]

\* err.message || err, the text the upload handler appends to its alert
ErrText(err) == IF err.message # "" THEN err.message ELSE err.name

RemoveAt(s, j) == SubSeq(s, 1, j - 1) \o SubSeq(s, j + 1, Len(s))

\* the record of a gateway call: the storage operation, its argument, the
\* phase of its open/transaction, and the handler continuation awaiting it
NewCall(op, cont, file, id, fs, i) ==
    [op |-> op, cont |-> cont, file |-> file, id |-> id, fs |-> fs, i |-> i,
     phase |-> "opening", added |-> 0, ts |-> {}, tk |-> 0]

Step(act, c, err, all) ==
    [act |-> act, op |-> c.op, cont |-> c.cont, id |-> c.id, fs |-> c.fs, i |-> c.i, err |-> err, all |-> all]
NoCall == NewCall("", "", NoFile, 0, <<>>, 0)

\* a call whose promise is still pending
InFlight(c) == c.phase # "committing"

\* ------------------------------------------------- the storage engine
IsWrite(op) == op \in {"add", "delete", "clear"}

\* index of the oldest call still waiting for indexedDB.open (0: none);
\* the engine processes the open requests of one database in order
FirstOpening ==
    IF \E j \in DOMAIN calls : calls[j].phase = "opening"
    THEN CHOOSE j \in DOMAIN calls : /\ calls[j].phase = "opening"
                                     /\ \A k \in DOMAIN calls : calls[k].phase = "opening" => j <= k
    ELSE 0

\* the transaction of call j may run its request: a read-write transaction
\* waits for every transaction created before it, a read-only one for the
\* read-write transactions created before it (all have scope 'files')
CanRun(j) ==
    /\ calls[j].phase = "queued"
    /\ \A k \in 1..(j - 1) :
          \/ calls[k].phase = "opening"
          \/ (~IsWrite(calls[j].op) /\ ~IsWrite(calls[k].op))

\* the entry addFileEntry builds, with the key the generator assigns
Entry(c, key) ==
    [id |-> key, name |-> c.file.name, type |-> c.file.type, size |-> c.file.size,
     added |-> c.added, blob |-> c.file]


\* store.delete given the key range up to id instead of the key id
WriteStore_DeleteUpTo(c, S, key) ==
    CASE c.op = "add" -> S \cup {Entry(c, key)}
      [] c.op = "delete" -> {r \in S : r.id > c.id}
      [] c.op = "clear" -> {}
      [] OTHER -> S
\* effect of the request of a read-write call on the object store
WriteStore(c, S, key) ==
    CASE c.op = "add" -> S \cup {Entry(c, key)}
      [] c.op = "delete" -> {r \in S : r.id # c.id}
      [] c.op = "clear" -> {}
      [] OTHER -> S

\* effect on the key generator: only add draws a key
WriteKey(c, key) == IF c.op = "add" THEN key + 1 ELSE key

\* ------------------------------------------------------------ renderList

\* renderList without line 159: the rows are appended as getAll returned them
RenderRows_Unsorted(fl, all) ==
    IF Len(all) = 0 THEN Append(fl, Note)
    ELSE fl \o [k \in 1..Len(all) |-> createFileRow(all[k])]
\* lines 151-162: the rows a resumed renderList appends to #fileList
RenderRows(fl, all) ==
    IF Len(all) = 0 THEN Append(fl, Note)
    ELSE fl \o [k \in 1..Len(all) |-> createFileRow(SortNewestFirst(all)[k])]

\* lines 149-150: empty the list and call listAllFiles()
renderListStart(base, cont, fs, i) ==
    /\ fileList' = <<>>
    /\ calls' = Append(base, NewCall("list", cont, NoFile, 0, fs, i))

\* lines 151-162 of a renderList nobody awaits
renderListResume(base, all) ==
    /\ fileList' = RenderRows(fileList, all)
    /\ lastAll' = all
    /\ calls' = base
    /\ UNCHANGED <<files, disabled, alerts, urls, upClean>>

\* -------------------------------------------------------- upload handler
\* line 181
UploadCatch(err) == alerts' = Append(alerts, <<"Upload failed: ", ErrText(err)>>)

\* the handler without its finally block: the button keeps its state
UploadFinally_Missing == disabled' = disabled

\* lines 182-185
UploadFinally == disabled' = FALSE

\* lines 172-178 after addFileEntry(files[i]) resolved
UploadResume(base, c) ==
    IF c.i < Len(c.fs)
    THEN /\ calls' = Append(base, NewCall("add", "upload", c.fs[c.i + 1], 0, c.fs, c.i + 1))
         /\ UNCHANGED <<files, disabled, fileList, alerts, urls, upClean, lastAll>>
    ELSE /\ files' = <<>>
         /\ renderListStart(base, "uploadRender", c.fs, c.i)
         /\ UNCHANGED <<disabled, alerts, urls, upClean, lastAll>>

\* lines 178-185 after the awaited renderList resolved
UploadRenderResume(base, all) ==
    /\ fileList' = RenderRows(fileList, all)
    /\ lastAll' = all
    /\ calls' = base
    /\ UploadFinally
    /\ UNCHANGED <<files, alerts, urls, upClean>>

\* the handler with its try/catch inside the loop: after a failed store it
\* reports the failure and goes on with the next file
UploadRejected_KeepsGoing(base, c, err) ==
    /\ UploadCatch(err)
    /\ IF c.cont = "upload" /\ c.i < Len(c.fs)
       THEN /\ calls' = Append(base, NewCall("add", "upload", c.fs[c.i + 1], 0, c.fs, c.i + 1))
            /\ disabled' = disabled
       ELSE /\ calls' = base
            /\ UploadFinally
    /\ UNCHANGED <<files, fileList, urls, upClean, lastAll>>

\* lines 179-185 after addFileEntry or renderList rejected inside the try
UploadRejected(base, c, err) ==
    /\ UploadCatch(err)
    /\ UploadFinally
    /\ calls' = base
    /\ UNCHANGED <<files, fileList, urls, upClean, lastAll>>

\* ----------------------------------------------------------- row handlers
\* lines 137 and 192: renderList() after the awaited delete / clear
AfterWriteResume(base) ==
    /\ renderListStart(base, "render", <<>>, 0)
    /\ UNCHANGED <<files, disabled, alerts, urls, upClean, lastAll>>


\* the handler without line 126: the object URL is never scheduled for release
ObjectURL_NoTimer(rec) == [name |-> rec.name, clicked |-> TRUE, timer |-> FALSE, revoked |-> 0]
\* lines 117-126: the object URL of rec.blob after a.click() (the save-as
\* named rec.name) and setTimeout: not revoked, its timer pending
ObjectURL(rec) == [name |-> rec.name, clicked |-> TRUE, timer |-> TRUE, revoked |-> 0]


\* the handler without the check of line 115
DownloadResume_Unchecked(base, rec) ==
    /\ calls' = base
    /\ urls' = Append(urls, ObjectURL(rec))
    /\ alerts' = alerts
    /\ UNCHANGED <<files, disabled, fileList, upClean, lastAll>>
\* lines 115-126 after getFileById resolved with rec
DownloadResume(base, rec) ==
    /\ calls' = base
    /\ IF rec = NoRec \/ rec.blob = NoFile
       THEN /\ alerts' = Append(alerts, <<"File data missing", "">>)
            /\ urls' = urls
       ELSE /\ urls' = Append(urls, ObjectURL(rec))
            /\ alerts' = alerts
    /\ UNCHANGED <<files, disabled, fileList, upClean, lastAll>>

\* line 199: the promise of a call made from the console settles; no code
\* of the page awaits it
Unobserved(base) ==
    /\ calls' = base
    /\ UNCHANGED <<files, disabled, fileList, alerts, urls, upClean, lastAll>>

\* a rejection in a handler without try/catch, or in a renderList nobody
\* awaits: the async function's promise rejects and nothing observes it
Unhandled(base) ==
    /\ calls' = base
    /\ UNCHANGED <<files, disabled, fileList, alerts, urls, upClean, lastAll>>

\* the handler awaiting call c resumes with the call's result
Resume(base, c, all) ==
    CASE c.cont = "render" -> renderListResume(base, all)
      [] c.cont = "upload" -> UploadResume(base, c)
      [] c.cont = "uploadRender" -> UploadRenderResume(base, all)
      [] c.cont \in {"delete", "clear"} -> AfterWriteResume(base)
      [] c.cont = "download" -> DownloadResume(base, IF all = <<>> THEN NoRec ELSE all[1])
      [] c.cont = "console" -> Unobserved(base)

\* the handler awaiting call c resumes with the call's rejection
Rejected(base, c, err) ==
    IF c.cont \in {"upload", "uploadRender"}
    THEN UploadRejected(base, c, err)
    ELSE Unhandled(base)

\* ------------------------------------------------------------ user events
UserStep(act) == Step(act, NoCall, NoErr, <<>>)


\* the handler without the check of line 167: an empty selection disables
\* the button, runs the loop zero times and goes on to renderList()
UploadClick_Unchecked(sel) ==
    /\ UNCHANGED <<retIds, arg, out>>
    /\ events < MaxEvents
    /\ ~disabled
    /\ events' = events + 1
    /\ last' = UserStep("upload")
    /\ disabled' = TRUE
    /\ alerts' = alerts
    /\ IF Len(sel) = 0
       THEN /\ files' = <<>>
            /\ renderListStart(calls, "uploadRender", sel, 0)
            /\ upClean' = upClean
       ELSE /\ files' = sel
            /\ calls' = Append(calls, NewCall("add", "upload", sel[1], 0, sel, 1))
            /\ upClean' = (store = {} /\ \A j \in DOMAIN calls : ~IsWrite(calls[j].op))
            /\ fileList' = fileList
    /\ UNCHANGED <<dbVersion, store, keyGen, conns, now, urls, lastAll>>
\* lines 165-175: click on Upload with sel selected in the file input, up
\* to the first await
UploadClick(sel) ==
    /\ UNCHANGED <<retIds, arg, out>>
    /\ events < MaxEvents
    /\ ~disabled
    /\ events' = events + 1
    /\ last' = UserStep("upload")
    /\ files' = sel
    /\ IF Len(sel) = 0
       THEN /\ alerts' = Append(alerts, <<"Select at least one file", "">>)
            /\ UNCHANGED <<calls, disabled, upClean>>
       ELSE /\ disabled' = TRUE
            /\ calls' = Append(calls, NewCall("add", "upload", sel[1], 0, sel, 1))
            /\ upClean' = (store = {} /\ \A j \in DOMAIN calls : ~IsWrite(calls[j].op))
            /\ alerts' = alerts
    /\ UNCHANGED <<dbVersion, store, keyGen, conns, now, fileList, urls, lastAll>>

\* line 188: click on Refresh
RefreshClick ==
    /\ UNCHANGED <<retIds, arg, out>>
    /\ events < MaxEvents
    /\ events' = events + 1
    /\ last' = UserStep("refresh")
    /\ renderListStart(calls, "render", <<>>, 0)
    /\ UNCHANGED <<dbVersion, store, keyGen, conns, now, files, disabled, alerts, urls, upClean, lastAll>>

\* lines 189-191: click on Clear all, answering the confirm with ok
ClearAllClick(ok) ==
    /\ UNCHANGED <<retIds, arg, out>>
    /\ events < MaxEvents
    /\ events' = events + 1
    /\ last' = UserStep(IF ok THEN "clearAll" ELSE "clearAllCancel")
    /\ IF ok
       THEN /\ calls' = Append(calls, NewCall("clear", "clear", NoFile, 0, <<>>, 0))
            /\ upClean' = FALSE
       ELSE UNCHANGED <<calls, upClean>>
    /\ UNCHANGED <<dbVersion, store, keyGen, conns, now, files, disabled, fileList, alerts, urls, lastAll>>

\* lines 134-136: click on the Delete button of child r of the list
DeleteClick(r, ok) ==
    /\ UNCHANGED <<retIds, arg, out>>
    /\ events < MaxEvents
    /\ r \in DOMAIN fileList
    /\ fileList[r].kind = "row"
    /\ events' = events + 1
    /\ last' = [UserStep(IF ok THEN "delete" ELSE "deleteCancel") EXCEPT !.id = fileList[r].item.id]
    /\ IF ok
       THEN /\ calls' = Append(calls, NewCall("delete", "delete", NoFile, fileList[r].item.id, <<>>, 0))
            /\ upClean' = FALSE
       ELSE UNCHANGED <<calls, upClean>>
    /\ UNCHANGED <<dbVersion, store, keyGen, conns, now, files, disabled, fileList, alerts, urls, lastAll>>

\* lines 113-114: click on the Download button of child r of the list
DownloadClick(r) ==
    /\ UNCHANGED <<retIds, arg, out>>
    /\ events < MaxEvents
    /\ r \in DOMAIN fileList
    /\ fileList[r].kind = "row"
    /\ events' = events + 1
    /\ last' = [UserStep("download") EXCEPT !.id = fileList[r].item.id]
    /\ calls' = Append(calls, NewCall("get", "download", NoFile, fileList[r].item.id, <<>>, 0))
    /\ UNCHANGED <<dbVersion, store, keyGen, conns, now, files, disabled, fileList, alerts, urls, upClean, lastAll>>

\* line 199: window._indra_files.deleteFileById(id) called from the console,
\* for an id the key generator has issued or is about to issue
DebugDelete(id) ==
    /\ UNCHANGED <<retIds, arg, out>>
    /\ events < MaxEvents
    /\ id \in 1..keyGen
    /\ events' = events + 1
    /\ last' = [UserStep("debugDelete") EXCEPT !.id = id]
    /\ calls' = Append(calls, NewCall("delete", "console", NoFile, id, <<>>, 0))
    /\ upClean' = FALSE
    /\ UNCHANGED <<dbVersion, store, keyGen, conns, now, files, disabled, fileList, alerts, urls, lastAll>>

\* line 126: the timer of object URL u fires
TimerFire(u) ==
    /\ UNCHANGED <<retIds, arg, out>>
    /\ u \in DOMAIN urls
    /\ urls[u].timer
    /\ urls' = [urls EXCEPT ![u].timer = FALSE, ![u].revoked = @ + 1]
    /\ last' = UserStep("timer")
    /\ UNCHANGED <<dbVersion, store, keyGen, conns, calls, now, files, disabled, fileList, alerts, events, upClean, lastAll>>

\* ---------------------------------------------------------- engine events
\* lines 6-19 and the executor of the wrapper: the oldest pending open
\* succeeds (creating the object store on first use), the wrapper resumes,
\* creates its transaction and places its request
OpenOk(t) ==
    /\ UNCHANGED <<retIds, arg, out>>
    /\ FirstOpening # 0
    /\ LET j == FirstOpening
           c == calls[j]
       IN /\ IF c.op = "add" THEN t \in {now, now + 1} /\ t <= MaxNow ELSE t = now
          /\ now' = t
          /\ calls' = [calls EXCEPT ![j].phase = "queued", ![j].added = IF c.op = "add" THEN t ELSE 0]
          /\ last' = Step("openOk", c, NoErr, <<>>)
    /\ dbVersion' = 1
    /\ conns' = conns + 1
    /\ UNCHANGED <<store, keyGen, files, disabled, fileList, alerts, urls, events, upClean, lastAll>>

\* line 17: the oldest pending open fails; await openDB() throws in the wrapper
OpenErr(err) ==
    /\ UNCHANGED <<retIds, arg, out>>
    /\ FirstOpening # 0
    /\ LET j == FirstOpening
           c == calls[j]
       IN /\ Rejected(RemoveAt(calls, j), c, err)
          /\ last' = Step("openErr", c, err, <<>>)
    /\ UNCHANGED <<dbVersion, store, keyGen, conns, now, events>>

\* rq.onsuccess of call j: the promise resolves and the awaiting handler
\* resumes.  A read-only transaction is finished with it; a read-write one
\* holds its changes until it commits or aborts.
ReqOk(j) ==
    /\ UNCHANGED <<arg, out>>
    /\ retIds' = IF calls[j].op = "add" THEN Append(retIds, keyGen) ELSE retIds
    /\ j \in DOMAIN calls
    /\ CanRun(j)
    /\ LET c == calls[j]
           all == CASE c.op = "list" -> GetAll(store)
                    [] c.op = "get" -> IF Get(store, c.id) = NoRec THEN <<>> ELSE <<Get(store, c.id)>>
                    [] OTHER -> <<>>
           base == IF IsWrite(c.op)
                   THEN [calls EXCEPT ![j].phase = "committing",
                                      ![j].ts = WriteStore(c, store, keyGen),
                                      ![j].tk = WriteKey(c, keyGen),
                                      ![j].id = IF c.op = "add" THEN keyGen ELSE c.id]
                   ELSE RemoveAt(calls, j)
       IN /\ Resume(base, c, all)
          /\ last' = [Step("reqOk", c, NoErr, all) EXCEPT !.id = IF c.op = "add" THEN keyGen ELSE c.id]
    /\ UNCHANGED <<dbVersion, store, keyGen, conns, now, events>>

\* rq.onerror of call j: the request fails, its transaction aborts, the
\* promise rejects
ReqErr(j, err) ==
    /\ UNCHANGED <<retIds, arg, out>>
    /\ j \in DOMAIN calls
    /\ CanRun(j)
    /\ LET c == calls[j]
       IN /\ Rejected(RemoveAt(calls, j), c, err)
          /\ last' = Step("reqErr", c, err, <<>>)
    /\ UNCHANGED <<dbVersion, store, keyGen, conns, now, events>>

\* the read-write transaction of call j commits: its changes become the store
TxCommit(j) ==
    /\ UNCHANGED <<retIds, arg, out>>
    /\ j \in DOMAIN calls
    /\ calls[j].phase = "committing"
    /\ store' = calls[j].ts
    /\ keyGen' = calls[j].tk
    /\ calls' = RemoveAt(calls, j)
    /\ last' = Step("commit", calls[j], NoErr, <<>>)
    /\ UNCHANGED <<dbVersion, conns, now, files, disabled, fileList, alerts, urls, events, upClean, lastAll>>

\* the read-write transaction of call j aborts after its request succeeded
\* (the commit failed): its changes, key generator included, are reverted.
\* No wrapper listens to the transaction, so no handler runs.
TxAbort(j) ==
    /\ UNCHANGED <<retIds, arg, out>>
    /\ j \in DOMAIN calls
    /\ calls[j].phase = "committing"
    /\ calls' = RemoveAt(calls, j)
    /\ last' = Step("abort", calls[j], NoErr, <<>>)
    /\ UNCHANGED <<dbVersion, store, keyGen, conns, now, files, disabled, fileList, alerts, urls, events, upClean, lastAll>>

\* ------------------------------------------------------------------ system
\* the page after the script ran: line 196 called renderList(), which
\* emptied the list and is waiting for its open request; the database is
\* new, or holds what an earlier session left
Init ==
    /\ \/ dbVersion = 0 /\ store = {} /\ keyGen = 1
       \/ dbVersion = 1 /\ store = {PriorRec} /\ keyGen = 2
    /\ conns = 0
    /\ calls = <<NewCall("list", "render", NoFile, 0, <<>>, 0)>>
    /\ now = 0
    /\ files = <<>>
    /\ disabled = FALSE
    /\ fileList = <<>>
    /\ alerts = <<>>
    /\ urls = <<>>
    /\ events = 0
    /\ upClean = FALSE
    /\ lastAll = <<>>
    /\ retIds = <<>>
    /\ last = UserStep("load")
    /\ arg = 0
    /\ out = 0

Next ==
    \/ \E sel \in Selections : UploadClick(sel)
    \/ RefreshClick
    \/ \E ok \in BOOLEAN : ClearAllClick(ok)
    \/ \E r \in 1..Len(fileList), ok \in BOOLEAN : DeleteClick(r, ok)
    \/ \E r \in 1..Len(fileList) : DownloadClick(r)
    \/ \E id \in 1..keyGen : DebugDelete(id)
    \/ \E u \in 1..Len(urls) : TimerFire(u)
    \/ \E t \in 0..MaxNow : OpenOk(t)
    \/ \E err \in Errs : OpenErr(err)
    \/ \E j \in 1..Len(calls) : ReqOk(j)
    \/ \E j \in 1..Len(calls), err \in Errs : ReqErr(j, err)
    \/ \E j \in 1..Len(calls) : TxCommit(j)
    \/ \E j \in 1..Len(calls) : TxAbort(j)

Spec == Init /\ [][Next]_vars

\* ------------------------------------------------------------- properties
ErrActs == {"openErr", "reqErr"}
TxEndActs == {"commit", "abort"}

\* the records of all are, in some order, one per file of fs, with its
\* name, type and size, and carry pairwise distinct ids
OnePerFile(all, fs) ==
    /\ Len(all) = Len(fs)
    /\ \E f \in [1..Len(fs) -> 1..Len(fs)] :
          /\ \A a, b \in 1..Len(fs) : a # b => f[a] # f[b]
          /\ \A k \in 1..Len(fs) :
                /\ all[f[k]].name = fs[k].name
                /\ all[f[k]].type = fs[k].type
                /\ all[f[k]].size = fs[k].size
    /\ \A a, b \in 1..Len(all) : a # b => all[a].id # all[b].id

\* C1: when an upload that started on an empty store, with no delete or
\* clear-all issued since, has seen every addFileEntry resolve, the
\* listAllFiles of its render returns exactly one record per selected file,
\* with that file's name, type and size, and pairwise distinct ids.
C1_UploadThenListReturnsAll ==
    (last.act = "reqOk" /\ last.cont = "uploadRender" /\ upClean)
        => OnePerFile(last.all, last.fs)

\* C2: once a deleteFileById(id) that completed has its transaction
\* finished, the store has lost the record with that id and nothing else,
\* and a lookup of id finds nothing.
C2_DeleteRemovesExactlyThatRecord ==
    [][(last'.op = "delete" /\ last'.act \in TxEndActs)
          => /\ store' = {r \in store : r.id # last'.id}
             /\ Get(store', last'.id) = NoRec]_vars

\* C3: once a clearAll() that completed has its transaction finished,
\* listAllFiles returns the empty collection, whatever the store held.
C3_ClearThenListEmpty ==
    (last.op = "clear" /\ last.act \in TxEndActs) => GetAll(store) = <<>>

\* the step issued addFileEntry for file number m of a selection
AddIssued(m) ==
    /\ Len(calls') = Len(calls) + 1
    /\ calls'[Len(calls')].op = "add"
    /\ calls'[Len(calls')].phase = "opening"
    /\ calls'[Len(calls')].i = m

\* C4: when addFileEntry rejects for file k of an upload, the handler
\* issues no further addFileEntry (a later file is only ever stored after
\* the file before it resolved), shows the alert 'Upload failed: ' with the
\* failure's message, and leaves the committed store and the transactions
\* of the earlier files untouched.
C4_FailedStoreAbortsRest ==
    [][/\ (last'.act \in ErrActs /\ last'.cont = "upload")
            => /\ store' = store /\ keyGen' = keyGen
               /\ \A j \in DOMAIN calls' : calls'[j].cont = "upload" => calls'[j].phase = "committing"
               /\ \A j \in DOMAIN calls : calls[j].phase = "committing" => \E k \in DOMAIN calls' : calls'[k] = calls[j]
               /\ alerts' = Append(alerts, <<"Upload failed: ", ErrText(last'.err)>>)
               /\ last'.err.message # "" => alerts'[Len(alerts')][2] = last'.err.message
       /\ \A m \in 2..MaxSel : AddIssued(m)
            => last'.act = "reqOk" /\ last'.cont = "upload" /\ last'.i = m - 1]_vars

\* C4 witness: the second file of an upload that started on an empty store
\* failed after the first file's record was committed
C4_Witness ==
    /\ last.act = "reqErr" /\ last.cont = "upload" /\ last.i = 2
    /\ upClean /\ Cardinality(store) = 1
    /\ alerts # <<>>

\* the calls of the running upload whose promise is pending
UploadPending == {j \in DOMAIN calls : InFlight(calls[j]) /\ calls[j].cont \in {"upload", "uploadRender"}}

\* C5: the upload button is disabled exactly while the upload handler is
\* waiting for one of its addFileEntry calls or for its render, at most
\* one such call exists, and the button is enabled again once the handler
\* has finished, whether by success, a failed store or a failed render.
C5_DisabledExactlyWhileUploading ==
    /\ disabled <=> UploadPending # {}
    /\ Cardinality(UploadPending) <= 1
    /\ (last.cont \in {"upload", "uploadRender"} /\ last.act \in ErrActs) => ~disabled
    /\ (last.cont = "uploadRender" /\ last.act = "reqOk") => ~disabled

\* C5 witness: the render of an upload failed and the button is enabled again
C5_Witness ==
    /\ last.cont = "uploadRender" /\ last.act \in ErrActs
    /\ ~disabled
    /\ events >= 1

\* C6: whenever a storage operation of a UI action fails, that step shows
\* an alert carrying the failure's message.
C6_EveryFailureAlerts ==
    [][last'.act \in ErrActs
          => /\ Len(alerts') = Len(alerts) + 1
             /\ alerts'[Len(alerts')][2] = ErrText(last'.err)]_vars

\* C7: at most one storage operation is in flight at any time.
C7_OneOperationInFlight ==
    Cardinality({j \in DOMAIN calls : InFlight(calls[j])}) <= 1

\* no renderList is waiting for its listAllFiles
RenderIdle == \A j \in DOMAIN calls : calls[j].op # "list"

\* C8: whenever no renderList is in flight, a list that is not left empty
\* by a failed read holds exactly what the most recently completed
\* renderList read: one placeholder if that was empty, else one row per
\* record, no id twice and no placeholder next to rows.
C8_ListRedrawnFromScratch ==
    (RenderIdle /\ fileList # <<>>) => fileList = RenderRows(<<>>, lastAll)

\* C9: an addFileEntry whose transaction ended without committing ended
\* rejected: a call that resolved with an id has, once its transaction is
\* finished, a record with that id in the store.
C9_AbortedAddRejects ==
    (last.op = "add" /\ last.act \in TxEndActs) => last.id \in Ids(store)

\* C10: the database is opened at most once in a session.
C10_SingleConnection == conns <= 1

\* C11: a Download whose getFileById finds no record under the row's id at
\* the time of the read (the record was deleted or cleared after the row was
\* drawn) gets an empty result, not a rejection, and then only shows the
\* error: no object URL is created, clicked or scheduled for release, no
\* storage call is started, and the store and its key generator stay as
\* they were.
C11_MissingRecordOnlyAlerts ==
    [][(last'.cont = "download" /\ last'.act = "reqOk" /\ last'.id \notin Ids(store))
         => /\ last'.all = <<>>
            /\ alerts' = Append(alerts, <<"File data missing", "">>)
            /\ urls' = urls
            /\ Len(calls') = Len(calls) - 1
            /\ \A j \in DOMAIN calls' : calls'[j] \in {calls[k] : k \in DOMAIN calls}
            /\ store' = store /\ keyGen' = keyGen]_vars

\* a Download answered with an empty result: its row was drawn for a record
\* that is gone
C11_Witness ==
    /\ last.cont = "download" /\ last.act = "reqOk" /\ last.all = <<>>
    /\ last.id \notin Ids(store)
    /\ alerts = <<<<"File data missing", "">>>>
    /\ urls = <<>>

\* the page with timers that fire: a callback passed to setTimeout is run
\* once its delay has passed
FairSpec == Spec /\ \A u \in 1..MaxEvents : WF_vars(TimerFire(u))

\* C12: a Download that found its record appends exactly one object URL,
\* made for that record, already given to the save-as click and with its
\* release scheduled; no URL is released before that click or more than
\* once, a URL is either waiting for its timer or released; and every URL
\* is released in the end, however many downloads overlap.
C12_EveryUrlReleasedOnce ==
    /\ [][(last'.cont = "download" /\ last'.act = "reqOk" /\ last'.all # <<>>)
            => urls' = Append(urls, [name |-> last'.all[1].name, clicked |-> TRUE,
                                     timer |-> TRUE, revoked |-> 0])]_vars
    /\ [][Len(urls') > Len(urls) => (last'.cont = "download" /\ last'.act = "reqOk")]_vars
    /\ [](\A u \in DOMAIN urls : /\ urls[u].clicked
                                 /\ urls[u].revoked <= 1
                                 /\ urls[u].timer <=> urls[u].revoked = 0)
    /\ \A u \in 1..MaxEvents : (Len(urls) >= u) ~> (Len(urls) >= u /\ urls[u].revoked = 1)

\* two downloads overlapped: the first URL is released while the second is
\* still waiting for its timer
C12_Witness ==
    /\ Len(urls) = 2
    /\ urls[1].revoked = 1 /\ ~urls[1].timer
    /\ urls[2].revoked = 0 /\ urls[2].timer

\* C13: a click on Upload with nothing selected shows the prompt and does
\* nothing else: no storage call is started (no add, no render), the list is
\* not emptied, the store and its key generator are untouched, and the
\* button is enabled before and after.
C13_EmptySelectionNoOp ==
    [][(last'.act = "upload" /\ files' = <<>>)
         => /\ alerts' = Append(alerts, <<"Select at least one file", "">>)
            /\ calls' = calls
            /\ fileList' = fileList
            /\ store' = store /\ keyGen' = keyGen /\ retIds' = retIds
            /\ ~disabled /\ ~disabled']_vars

\* the prompt was shown for an empty selection while the store held a record
C13_Witness ==
    /\ last.act = "upload" /\ files = <<>>
    /\ alerts # <<>> /\ alerts[Len(alerts)] = <<"Select at least one file", "">>
    /\ store # {}
    /\ ~disabled

\* ------------------------------------------------ the sort of renderList
\* records as addFileEntry builds them, for every id and timestamp in range
RecPool ==
    {[id |-> i, name |-> FileA.name, type |-> FileA.type, size |-> FileA.size,
      added |-> t, blob |-> FileA] : i \in 1..MaxRecs, t \in 0..(MaxRecs - 1)}

\* the arrays listAllFiles can resolve with, in any order: up to MaxRecs
\* records with different keys
Arrays ==
    {a \in UNION {[1..n -> RecPool] : n \in 0..MaxRecs} :
        \A k, m \in DOMAIN a : k # m => a[k].id # a[m].id}

\* a renderList that has emptied the list (line 149) and awaits
\* listAllFiles(), which is about to resolve with arg
SortInit ==
    /\ arg \in Arrays
    /\ out = 0
    /\ dbVersion = 1 /\ store = {arg[k] : k \in DOMAIN arg} /\ keyGen = MaxRecs + 1
    /\ conns = 1
    /\ calls = <<[NewCall("list", "render", NoFile, 0, <<>>, 0) EXCEPT !.phase = "queued"]>>
    /\ now = MaxRecs
    /\ files = <<>> /\ disabled = FALSE /\ fileList = <<>> /\ alerts = <<>> /\ urls = <<>>
    /\ events = 0 /\ upClean = FALSE /\ lastAll = <<>> /\ retIds = <<>>
    /\ last = UserStep("load")

\* lines 151-162 applied to arg
SortRender ==
    /\ calls # <<>>
    /\ renderListResume(RemoveAt(calls, 1), arg)
    /\ last' = Step("reqOk", calls[1], NoErr, arg)
    /\ UNCHANGED <<dbVersion, store, keyGen, conns, now, events, retIds, arg, out>>

SortSpec == SortInit /\ [][SortRender]_vars

DistinctAdded(a) == \A k, m \in DOMAIN a : k # m => a[k].added # a[m].added

\* C14: when the records in the array have pairwise different added
\* timestamps, the rows one renderList draws are those records, one row
\* each, in strictly descending order of added, whatever the order of the
\* array was.
C14_RowsNewestFirst ==
    (calls = <<>> /\ arg # <<>> /\ DistinctAdded(arg))
        => /\ Len(fileList) = Len(arg)
           /\ {fileList[k] : k \in DOMAIN fileList} = {createFileRow(arg[k]) : k \in DOMAIN arg}
           /\ \A k \in 1..(Len(fileList) - 1) : fileList[k].item.added > fileList[k + 1].item.added

\* three rows drawn from an array that came oldest first
C14_Witness ==
    /\ calls = <<>> /\ Len(arg) = 3 /\ DistinctAdded(arg)
    /\ arg[1].added < arg[2].added /\ arg[2].added < arg[3].added
    /\ Len(fileList) = 3
    /\ fileList[1].item = arg[3] /\ fileList[3].item = arg[1]

\* C15: a deleteFileById for an id that is not in the store when its
\* transaction runs resolves, and the end of its transaction leaves the
\* store and the key generator exactly as they were; the second of two
\* deletes of one id is such a call.
C15_DeleteAbsentIsNoOp ==
    /\ [][(last'.op = "delete" /\ last'.act = "reqOk" /\ last'.id \notin Ids(store))
            => \E j \in DOMAIN calls' : /\ calls'[j].phase = "committing"
                                        /\ calls'[j].op = "delete" /\ calls'[j].id = last'.id
                                        /\ calls'[j].ts = store /\ calls'[j].tk = keyGen]_vars
    /\ [][(last'.op = "delete" /\ last'.act \in TxEndActs /\ last'.id \notin Ids(store))
            => (store' = store /\ keyGen' = keyGen)]_vars

\* a delete of an id that was never issued committed, and the record that
\* was in the store is still there
C15_Witness ==
    /\ last.op = "delete" /\ last.act = "commit"
    /\ last.id = keyGen
    /\ PriorRec \in store

\* the adds of the running upload whose promise is pending
AddsInFlight == {j \in DOMAIN calls : calls[j].op = "add" /\ InFlight(calls[j])}

\* C16: the files of one upload are stored one after the other: at most one
\* addFileEntry is pending at any time, the add of file i+1 is started only
\* by the step in which the add of file i resolved, and the id each add of
\* the upload resolves with is greater than the id of the add before it.
C16_UploadStrictlySequential ==
    /\ [](Cardinality(AddsInFlight) <= 1)
    /\ [][\A j \in DOMAIN calls' :
            (calls'[j].op = "add" /\ calls'[j].phase = "opening" /\ calls'[j].i >= 2
             /\ calls'[j] \notin {calls[k] : k \in DOMAIN calls})
                => (last'.act = "reqOk" /\ last'.op = "add" /\ last'.i = calls'[j].i - 1)]_vars
    /\ []((last.act = "reqOk" /\ last.op = "add" /\ last.i >= 2)
            => retIds[Len(retIds)] > retIds[Len(retIds) - 1])

\* C17: ids are never reused: every id addFileEntry resolves with is greater
\* than every id it resolved with before, whatever was deleted or cleared
\* in between, and is the id of no record already in the store; so a row
\* of the list and the record stored under the row's id, if there is one,
\* are the same record.
C17_IdsNeverReused ==
    /\ \A k, m \in DOMAIN retIds : k < m => retIds[k] < retIds[m]
    /\ (last.act = "reqOk" /\ last.op = "add") => last.id \notin Ids(store)
    /\ \A r \in DOMAIN fileList :
          (fileList[r].kind = "row" /\ fileList[r].item.id \in Ids(store))
              => Get(store, fileList[r].item.id) = fileList[r].item

\* C18: deleteFileById is called for a row only by a confirmed click on
\* that row's Delete; a cancelled click starts no storage call and leaves
\* the store and the list as they were; after a confirmed click the step in
\* which the delete resolves starts a renderList (the list is emptied and
\* listAllFiles is called), and once the delete's transaction has ended the
\* row's record is not in the store.
C18_DeleteOnlyOnConfirm ==
    /\ [][\A j \in DOMAIN calls' :
            (calls'[j].cont = "delete" /\ calls'[j] \notin {calls[k] : k \in DOMAIN calls}
             /\ calls'[j].phase = "opening")
                => (last'.act = "delete" /\ calls'[j].op = "delete" /\ calls'[j].id = last'.id)]_vars
    /\ [][last'.act = "deleteCancel"
            => (calls' = calls /\ store' = store /\ keyGen' = keyGen /\ fileList' = fileList)]_vars
    /\ [][(last'.cont = "delete" /\ last'.act = "reqOk")
            => /\ fileList' = <<>>
               /\ calls'[Len(calls')].op = "list" /\ calls'[Len(calls')].phase = "opening"
               /\ Len(calls') = Len(calls) + 1]_vars
    /\ []((last.cont = "delete" /\ last.act \in TxEndActs) => last.id \notin Ids(store))

\* ------------------------------------------------ the size text of a row
\* byte counts on either side of the unit thresholds, of the sizes of the
\* two example files, and of quotients that lie halfway between two tenths
Sizes ==
    {n \in UNION {(b - MaxOffset)..(b + MaxOffset) :
                     b \in {0, FileA.size, K, K + K \div 4, FileB.size, K * K,
                            K * K + (K * K) \div 4, K * K * K}} : n >= 0}

\* createFileRow about to format the size arg of its item (line 103)
HumanInit ==
    /\ arg \in Sizes
    /\ out = NoText
    /\ dbVersion = 1 /\ store = {} /\ keyGen = 1 /\ conns = 1
    /\ calls = <<>> /\ now = 0
    /\ files = <<>> /\ disabled = FALSE /\ fileList = <<>> /\ alerts = <<>> /\ urls = <<>>
    /\ events = 0 /\ upClean = FALSE /\ lastAll = <<>> /\ retIds = <<>>
    /\ last = UserStep("load")

\* humanSize(item.size) is evaluated
HumanSizeCall ==
    /\ out = NoText
    /\ out' = humanSize(arg)
    /\ UNCHANGED <<dbVersion, store, keyGen, conns, calls, now, files, disabled, fileList,
                   alerts, urls, events, upClean, lastAll, retIds, last, arg>>

HumanSpec == HumanInit /\ [][HumanSizeCall]_vars

\* text o shows n/d to one decimal: one digit after the point, and no other
\* number of tenths is nearer to n/d
RoundedToOneDecimal(o, n, d) ==
    /\ Len(o.frac) = 1 /\ o.frac[1] \in 0..9 /\ o.whole >= 0
    /\ LET e == 10 * o.whole + o.frac[1] - 10 * (n \div d)
           r == n % d
       IN /\ (2 * e - 1) * (d \div 2) <= 10 * r
          /\ 10 * r <= (2 * e + 1) * (d \div 2)

\* C19: humanSize(n) for a byte count n >= 0 is n itself and ' B' below
\* 1024, n/1024 to one decimal and ' KB' below 1024^2, n/1024^2 to one
\* decimal and ' MB' below 1024^3, and n/1024^3 to one decimal and ' GB'
\* from there on; humanSize(10) is "10 B" and humanSize(2048) is "2.0 KB".
C19_HumanSizeUnits ==
    out # NoText =>
        /\ arg < K => out = [whole |-> arg, frac |-> <<>>, unit |-> " B"]
        /\ (K <= arg /\ arg < K * K) => (out.unit = " KB" /\ RoundedToOneDecimal(out, arg, K))
        /\ (K * K <= arg /\ arg < K * K * K)
              => (out.unit = " MB" /\ RoundedToOneDecimal(out, arg, K * K))
        /\ K * K * K <= arg => (out.unit = " GB" /\ RoundedToOneDecimal(out, arg, K * K * K))
        /\ arg = 10 => out = [whole |-> 10, frac |-> <<>>, unit |-> " B"]
        /\ arg = 2048 => out = [whole |-> 2, frac |-> <<0>>, unit |-> " KB"]

\* humanSize(1024) was evaluated: the first byte count shown in KB
C19_Witness == arg = K /\ out = [whole |-> 1, frac |-> <<0>>, unit |-> " KB"]

\* ------------------------------------------------------ the page by itself
\* the page used through its controls only: nothing is called from the
\* console
UINext ==
    \/ \E sel \in Selections : UploadClick(sel)
    \/ RefreshClick
    \/ \E ok \in BOOLEAN : ClearAllClick(ok)
    \/ \E r \in 1..Len(fileList), ok \in BOOLEAN : DeleteClick(r, ok)
    \/ \E r \in 1..Len(fileList) : DownloadClick(r)
    \/ \E u \in 1..Len(urls) : TimerFire(u)
    \/ \E t \in 0..MaxNow : OpenOk(t)
    \/ \E err \in Errs : OpenErr(err)
    \/ \E j \in 1..Len(calls) : ReqOk(j)
    \/ \E j \in 1..Len(calls), err \in Errs : ReqErr(j, err)
    \/ \E j \in 1..Len(calls) : TxCommit(j)
    \/ \E j \in 1..Len(calls) : TxAbort(j)

UISpec == Init /\ [][UINext]_vars

\* the ids of the records shown as rows
RowIds == {fileList[r].item.id : r \in {x \in DOMAIN fileList : fileList[x].kind = "row"}}

\* C20: when the store is changed through the page's controls only and no
\* storage call or render is pending, the rows of the list show exactly the
\* ids in the store; in particular after an upload that failed partway the
\* records of the files stored before the failure are shown.  (A list left
\* empty by a render whose read failed is not counted.)
C20_ListInSyncWhenIdle ==
    (calls = <<>> /\ fileList # <<>>) => RowIds = Ids(store)

====
